---- MODULE Spec2Model ----
(***************************************************************************)
(* Model of the ApeX Omni client scripts.                                  *)
(*                                                                         *)
(*   src/deposit.py : the deposit flow (module body): bounded account      *)
(*                    poll, then deposit_to_exchange and wait_for_tx.      *)
(*   src/apex.py    : ApexBalanceChecker (_generate_signature,             *)
(*                    _make_request, calculate_total_balance) and main.    *)
(*                                                                         *)
(* Python strings are modelled as sequences of code points, so that        *)
(* concatenation, lexicographic ordering and parsing are computed and not  *)
(* assumed.  Python dicts are functions whose DOMAIN is the key set; a     *)
(* key that is absent is absent from the DOMAIN.                           *)
(***************************************************************************)
EXTENDS Integers, Sequences, FiniteSets, TLC

VARIABLES
    \* ---- src/deposit.py (module body) ----
    dpc,            \* position in the script
    priKey,         \* os.getenv('ETH_PRIVATE_KEY')
    account,        \* the variable `account`
    attempt,        \* the variable `attempt`
    client_account, \* client.account
    position_id,    \* the variable `position_id`
    derr,           \* the exception that ended the script, or NoError
    lookups,        \* number of client.get_account_v3() calls made
    emptyLookups,   \* number of those that returned None
    sleeps,         \* number of time.sleep(6) calls made
    deposits,       \* number of client.eth.deposit_to_exchange() calls made
    waits,          \* number of client.eth.wait_for_tx() calls made
    lookupsAtReady, \* value of `lookups` when line 54 was reached, else -1
    \* ---- src/apex.py: ApexBalanceChecker._make_request ----
    rpc,            \* "call", "sent", "returned" or "raised"
    r_self,         \* the checker: api_key, secret, passphrase, base_url
    r_method,       \* argument `method`
    r_endpoint,     \* argument `endpoint`
    r_params,       \* argument `params`: PyNone or a dict (items in insertion order)
    r_now,          \* int(time.time() * 1000) at line 58
    r_timeoutEnv,   \* os.getenv('REQUEST_TIMEOUT')
    r_sent,         \* the HTTP request handed to requests.get/post, or PyNone
    r_outcome,      \* what the HTTP call did, or "pending"
    r_result,       \* the value returned, or the exception raised
    \* ---- src/apex.py: ApexBalanceChecker.calculate_total_balance ----
    apc,            \* "fetched" or "done"
    a_account_data, \* the variable `account_data`
    a_balance_data, \* the variable `balance_data`
    a_result,       \* [ret |-> the returned dict] or [exc |-> the exception raised]
    \* ---- src/apex.py: main ----
    mpc,            \* position in main
    API_KEY,        \* os.getenv('APEX_API_KEY')
    SECRET,         \* os.getenv('APEX_SECRET')
    PASSPHRASE,     \* os.getenv('APEX_PASSPHRASE')
    IS_TESTNET,     \* os.getenv('IS_TESTNET', 'false').lower() == 'true'
    auto_save,      \* os.getenv('AUTO_SAVE_REPORTS', 'false').lower() == 'true'
    m_checker,      \* the ApexBalanceChecker once constructed, else PyNone
    m_http,         \* number of HTTP requests issued
    m_account_data, \* `account_data` inside calculate_total_balance
    m_balance_data, \* `balance_data` inside calculate_total_balance
    m_report,       \* `balance_data` in main: what calculate_total_balance returned
    m_out,          \* the kinds of message printed so far
    m_prompts,      \* number of input() prompts shown
    m_files,        \* number of report files written
    m_caught        \* the exception caught at line 312, or NoError

dvars == <<dpc, priKey, account, attempt, client_account, position_id, derr,
           lookups, emptyLookups, sleeps, deposits, waits, lookupsAtReady>>

rvars == <<rpc, r_self, r_method, r_endpoint, r_params, r_now, r_timeoutEnv, r_sent,
           r_outcome, r_result>>

avars == <<apc, a_account_data, a_balance_data, a_result>>

mvars == <<mpc, API_KEY, SECRET, PASSPHRASE, IS_TESTNET, auto_save, m_checker, m_http,
           m_account_data, m_balance_data, m_report, m_out, m_prompts, m_files,
           m_caught>>

vars == <<dvars, rvars, avars, mvars>>

DOthers == <<rvars, avars, mvars>>
ROthers == <<dvars, avars, mvars>>
AOthers == <<dvars, rvars, mvars>>
MOthers == <<dvars, rvars, avars>>

(***************************************************************************)
(* Python values                                                           *)
(***************************************************************************)
PyNone == [t |-> "None"]

EmptyDict == [k \in {} |-> PyNone]

\* a str, an int, and a dict given by its items in insertion order
PStr(s) == [t |-> "str", v |-> s]
PInt(n) == [t |-> "int", v |-> n]
PDict(items) == [t |-> "dict", items |-> items]

\* dict.get(key, default)
Get(d, k, default) == IF k \in DOMAIN d THEN d[k] ELSE default

(***************************************************************************)
(* src/deposit.py                                                          *)
(***************************************************************************)
max_attempts == 20

NoError == "none"

\* os.getenv('ETH_PRIVATE_KEY'): unset, set to the empty string, or set.
PriKeyEnv == {PyNone, PStr(<<>>), PStr(<<48, 120, 49>>)}

\* What client.get_account_v3() can hand back when it does not return None:
\* an account with an 'id', or a dict without one.
AccountSamples == { [id |-> PStr(<<55>>)], [msg |-> PStr(<<111, 107>>)] }

\* `not priKey`
KeyMissing(k) == k = PyNone \/ k = PStr(<<>>)

\* line 44 with an off-by-one bound
PollCond_offByOne(acc, att) == acc = PyNone /\ att <= max_attempts

\* line 44 without the test of `account`
PollCond_ignoreAccount(acc, att) == att < max_attempts

\* the loop condition of line 44
PollCond(acc, att) == acc = PyNone /\ att < max_attempts

\* line 51 with the test dropped
AccountMissing_never(acc) == FALSE

\* the test of line 51
AccountMissing(acc) == acc = PyNone

DInit ==
    /\ dpc = "check_key"
    /\ priKey \in PriKeyEnv
    /\ account = PyNone
    /\ attempt = 0
    /\ client_account = PyNone
    /\ position_id = PyNone
    /\ derr = NoError
    /\ lookups = 0
    /\ emptyLookups = 0
    /\ sleeps = 0
    /\ deposits = 0
    /\ waits = 0
    /\ lookupsAtReady = -1

DOff ==
    /\ dpc = "off"
    /\ priKey = PyNone
    /\ account = PyNone
    /\ attempt = 0
    /\ client_account = PyNone
    /\ position_id = PyNone
    /\ derr = NoError
    /\ lookups = 0
    /\ emptyLookups = 0
    /\ sleeps = 0
    /\ deposits = 0
    /\ waits = 0
    /\ lookupsAtReady = -1

\* lines 27-28
DCheckKey ==
    /\ dpc = "check_key"
    /\ IF KeyMissing(priKey)
         THEN dpc' = "error" /\ derr' = "ValueError_key"
         ELSE dpc' = "init_client" /\ derr' = derr
    /\ UNCHANGED <<priKey, account, attempt, client_account, position_id,
                   lookups, emptyLookups, sleeps, deposits, waits, lookupsAtReady>>
    /\ UNCHANGED DOthers

\* lines 33-42: HttpPrivateSign(...), client.configs_v3(); either may raise
DInitClient ==
    /\ dpc = "init_client"
    /\ \E ok \in BOOLEAN :
         IF ok
           THEN dpc' = "while" /\ account' = PyNone /\ attempt' = 0 /\ derr' = derr
           ELSE dpc' = "error" /\ derr' = "sdk_error"
                /\ UNCHANGED <<account, attempt>>
    /\ UNCHANGED <<priKey, client_account, position_id,
                   lookups, emptyLookups, sleeps, deposits, waits, lookupsAtReady>>
    /\ UNCHANGED DOthers

\* line 44: the loop test
DLoopTest ==
    /\ dpc = "while"
    /\ dpc' = IF PollCond(account, attempt) THEN "lookup" ELSE "after_loop"
    /\ UNCHANGED <<priKey, account, attempt, client_account, position_id, derr,
                   lookups, emptyLookups, sleeps, deposits, waits, lookupsAtReady>>
    /\ UNCHANGED DOthers

\* lines 45-49: one iteration of the loop body, the lookup returning r
DLookup ==
    /\ dpc = "lookup"
    /\ \E r \in {PyNone} \cup AccountSamples :
         /\ account' = r
         /\ lookups' = lookups + 1
         /\ emptyLookups' = IF r = PyNone THEN emptyLookups + 1 ELSE emptyLookups
         /\ sleeps' = IF r = PyNone THEN sleeps + 1 ELSE sleeps
    /\ attempt' = attempt + 1
    /\ dpc' = "while"
    /\ UNCHANGED <<priKey, client_account, position_id, derr, deposits, waits,
                   lookupsAtReady>>
    /\ UNCHANGED DOthers

\* line 45 when client.get_account_v3() raises: the exception ends the script
DLookupRaises ==
    /\ dpc = "lookup"
    /\ lookups' = lookups + 1
    /\ dpc' = "error"
    /\ derr' = "sdk_error"
    /\ UNCHANGED <<priKey, account, attempt, client_account, position_id,
                   emptyLookups, sleeps, deposits, waits, lookupsAtReady>>
    /\ UNCHANGED DOthers

\* lines 51-55
DCheckAccount ==
    /\ dpc = "after_loop"
    /\ IF AccountMissing(account)
         THEN /\ dpc' = "error"
              /\ derr' = "ValueError_exhausted"
              /\ UNCHANGED <<client_account, lookupsAtReady>>
         ELSE /\ dpc' = "ready"
              /\ client_account' = account
              /\ lookupsAtReady' = lookups
              /\ derr' = derr
    /\ UNCHANGED <<priKey, account, attempt, position_id,
                   lookups, emptyLookups, sleeps, deposits, waits>>
    /\ UNCHANGED DOthers

\* line 58
DExtractId ==
    /\ dpc = "ready"
    /\ position_id' = Get(account, "id", PyNone)
    /\ dpc' = "deposit"
    /\ UNCHANGED <<priKey, account, attempt, client_account, derr,
                   lookups, emptyLookups, sleeps, deposits, waits, lookupsAtReady>>
    /\ UNCHANGED DOthers

\* lines 67-71: client.eth.deposit_to_exchange(position_id, 0.1) returns a
\* transaction hash or raises
DDeposit ==
    /\ dpc = "deposit"
    /\ deposits' = deposits + 1
    /\ \E ok \in BOOLEAN :
         IF ok THEN dpc' = "wait_tx" /\ derr' = derr
               ELSE dpc' = "error" /\ derr' = "deposit_error"
    /\ UNCHANGED <<priKey, account, attempt, client_account, position_id,
                   lookups, emptyLookups, sleeps, waits, lookupsAtReady>>
    /\ UNCHANGED DOthers

\* lines 72-75: client.eth.wait_for_tx(deposit_tx_hash) returns or raises
DWaitTx ==
    /\ dpc = "wait_tx"
    /\ waits' = waits + 1
    /\ \E ok \in BOOLEAN :
         IF ok THEN dpc' = "done" /\ derr' = derr
               ELSE dpc' = "error" /\ derr' = "wait_error"
    /\ UNCHANGED <<priKey, account, attempt, client_account, position_id,
                   lookups, emptyLookups, sleeps, deposits, lookupsAtReady>>
    /\ UNCHANGED DOthers

DNext ==
    \/ DCheckKey
    \/ DInitClient
    \/ DLoopTest
    \/ DLookup
    \/ DLookupRaises
    \/ DCheckAccount
    \/ DExtractId
    \/ DDeposit
    \/ DWaitTx

(***************************************************************************)
(* Strings                                                                 *)
(***************************************************************************)
\* Python's `<` on str: lexicographic by code point, a proper prefix first
RECURSIVE StrLess(_, _)
StrLess(a, b) ==
    IF b = <<>> THEN FALSE
    ELSE IF a = <<>> THEN TRUE
    ELSE IF Head(a) # Head(b) THEN Head(a) < Head(b)
    ELSE StrLess(Tail(a), Tail(b))

\* str(n) of a non-negative int: its decimal digits
RECURSIVE IntToStr(_)
IntToStr(n) ==
    IF n < 10 THEN <<48 + n>>
    ELSE IntToStr(n \div 10) \o <<48 + (n % 10)>>

\* sep.join(parts)
RECURSIVE Join(_, _)
Join(sep, parts) ==
    IF parts = <<>> THEN <<>>
    ELSE IF Len(parts) = 1 THEN parts[1]
    ELSE parts[1] \o sep \o Join(sep, Tail(parts))

\* str(value) as an f-string renders it
FormatValue(v) ==
    IF v = PyNone THEN <<78, 111, 110, 101>>
    ELSE IF v.t = "str" THEN v.v
    ELSE IntToStr(v.v)

(***************************************************************************)
(* src/apex.py: ApexBalanceChecker._generate_signature, _make_request      *)
(***************************************************************************)
S_GET == <<71, 69, 84>>
S_POST == <<80, 79, 83, 84>>
S_V3 == <<47, 118, 51>>
S_AMP == <<38>>
S_QM == <<63>>
S_EQ == <<61>>

\* credentials that pass the checks of main
SelfApiKey == <<107, 49>>
SelfSecret == <<115, 51, 99>>
SelfPassphrase == <<112, 119>>

\* "https://testnet.omni.apex.exchange/api"
S_TestnetUrl ==
    <<104, 116, 116, 112, 115, 58, 47, 47, 116, 101, 115, 116, 110, 101,
      116, 46, 111, 109, 110, 105, 46, 97, 112, 101, 120, 46, 101,
      120, 99, 104, 97, 110, 103, 101, 47, 97, 112, 105>>

\* "https://omni.apex.exchange/api"
S_MainnetUrl ==
    <<104, 116, 116, 112, 115, 58, 47, 47, 111, 109, 110, 105, 46, 97,
      112, 101, 120, 46, 101, 120, 99, 104, 97, 110, 103, 101, 47,
      97, 112, 105>>

\* lines 21-38: ApexBalanceChecker.__init__
NewChecker(api_key, secret, passphrase, is_testnet) ==
    [ api_key |-> api_key,
      secret |-> secret,
      passphrase |-> passphrase,
      base_url |-> IF is_testnet THEN S_TestnetUrl ELSE S_MainnetUrl ]

\* base64.standard_b64encode: an injective encoding, kept symbolic
B64(x) == [b64 |-> x]

\* hmac.new(key, msg, hashlib.sha256).digest(): kept symbolic, one digest
\* per (key, message)
HmacSha256(key, msg) == [hmac_sha256_key |-> key, msg |-> msg]

\* lines 40-54
GenerateSignature(secret, timestamp, method, path, data) ==
    LET message == timestamp \o method \o path \o data
        key == B64(secret)
    IN  B64(HmacSha256(key, message))

\* sorted(params.items()) of line 65 without the sort
SortedItems_unsorted(items) == items

\* one step of the sort: x put before the first item whose key is greater
RECURSIVE InsertItem(_, _)
InsertItem(x, sorted) ==
    IF sorted = <<>> THEN <<x>>
    ELSE IF StrLess(x[1], Head(sorted)[1]) THEN <<x>> \o sorted
    ELSE <<Head(sorted)>> \o InsertItem(x, Tail(sorted))

RECURSIVE SortItems(_)
SortItems(items) ==
    IF items = <<>> THEN <<>>
    ELSE InsertItem(items[Len(items)], SortItems(SubSeq(items, 1, Len(items) - 1)))

\* sorted(params.items()) of line 65: the keys of a dict are distinct, so
\* the (key, value) tuples are ordered by key alone
SortedItems(items) == SortItems(items)

\* line 66: `if value is not None`
Rendered(item) == item[2] # PyNone

\* lines 64-67: the list query_params
RECURSIVE RenderItems(_)
RenderItems(items) ==
    IF items = <<>> THEN <<>>
    ELSE (IF Rendered(Head(items))
            THEN << Head(items)[1] \o S_EQ \o FormatValue(Head(items)[2]) >>
            ELSE <<>>)
         \o RenderItems(Tail(items))

\* `params` is truthy: not None and not an empty dict
Truthy(params) == params # PyNone /\ params.items # <<>>

QueryParams(method, params) ==
    IF method = S_GET /\ Truthy(params)
      THEN RenderItems(SortedItems(params.items))
      ELSE <<>>

\* lines 62-70: query_string
QueryString(method, params) ==
    LET qp == QueryParams(method, params)
    IN  IF qp # <<>> THEN S_AMP \o Join(S_AMP, qp) ELSE <<>>

\* lines 59-70: path
RequestPath(method, endpoint, params) ==
    LET qp == QueryParams(method, params)
    IN  S_V3 \o endpoint \o (IF qp # <<>> THEN S_QM \o Join(S_AMP, qp) ELSE <<>>)

\* json.dumps of a value
JsonValue(v) ==
    IF v = PyNone THEN <<110, 117, 108, 108>>
    ELSE IF v.t = "str" THEN <<34>> \o v.v \o <<34>>
    ELSE IntToStr(v.v)

RECURSIVE JsonItems(_)
JsonItems(items) ==
    IF items = <<>> THEN <<>>
    ELSE << <<34>> \o Head(items)[1] \o <<34, 58, 32>> \o JsonValue(Head(items)[2]) >>
         \o JsonItems(Tail(items))

\* the body requests builds from json=...: json.dumps(d), keys in insertion order
JsonDumps(d) == <<123>> \o Join(<<44, 32>>, JsonItems(d.items)) \o <<125>>

\* line 89: `params or {}`
PostJson(params) == IF Truthy(params) THEN params ELSE PDict(<<>>)

\* line 85: int(os.getenv('REQUEST_TIMEOUT', 30)): [val |-> n], or
\* [exc |-> "ValueError"] when int() raises
IsDigits(str) == str # <<>> /\ \A i \in 1..Len(str) : str[i] >= 48 /\ str[i] <= 57

RECURSIVE StrToInt(_)
StrToInt(str) ==
    IF str = <<>> THEN 0
    ELSE 10 * StrToInt(SubSeq(str, 1, Len(str) - 1)) + (str[Len(str)] - 48)

DefaultTimeout == 30

ParseTimeout(env) ==
    IF env = PyNone THEN [val |-> DefaultTimeout]
    ELSE IF IsDigits(env.v) THEN [val |-> StrToInt(env.v)]
    ELSE [exc |-> "ValueError"]

\* line 94 catching requests.exceptions.Timeout only
IsRequestException_timeoutOnly(exc) == exc = "Timeout"

\* line 94: the classes that `except requests.exceptions.RequestException` catches
IsRequestException(exc) ==
    exc \in {"Timeout", "ConnectionError", "HTTPError", "requests.JSONDecodeError"}

\* ---- inputs ----
MaxParams == 3

ParamKeys == { <<66>>, <<97>>, <<97, 98>>, <<98>> }

ParamValues == { PyNone, PStr(<<>>), PInt(10) }

Methods == { S_GET, S_POST }

Endpoints == { <<47, 97, 99, 99, 111, 117, 110, 116>>, <<47, 120>> }

NowSamples == { 1700000123 }

TimeoutEnvs == { PyNone, PStr(<<52, 53>>), PStr(<<97, 98, 99>>) }

\* dicts of n entries: n distinct keys in some insertion order, each with a value
DictsOfSize(n) ==
    { d \in [1..n -> ParamKeys \X ParamValues] :
        \A i, j \in 1..n : i # j => d[i][1] # d[j][1] }

ParamDicts == { PDict(d) : d \in UNION { DictsOfSize(n) : n \in 0..MaxParams } }

\* what a 2xx response body parses to
ResponseBodies == { EmptyDict, [code |-> PInt(0)] }

HttpFailures == { "timeout", "connection_error", "http_error" }

\* the exception a failed call raises inside the try block
FailureException(o) ==
    IF o = "timeout" THEN "Timeout"
    ELSE IF o = "connection_error" THEN "ConnectionError"
    ELSE "HTTPError"

ROff ==
    /\ rpc = "off"
    /\ r_self = PyNone
    /\ r_method = <<>>
    /\ r_endpoint = <<>>
    /\ r_params = PyNone
    /\ r_now = 0
    /\ r_timeoutEnv = PyNone
    /\ r_sent = PyNone
    /\ r_outcome = "pending"
    /\ r_result = PyNone

RInit ==
    /\ rpc = "call"
    /\ r_self \in { NewChecker(SelfApiKey, SelfSecret, SelfPassphrase, is_testnet) :
                      is_testnet \in BOOLEAN }
    /\ r_method \in Methods
    /\ r_endpoint \in Endpoints
    /\ r_params \in {PyNone} \cup ParamDicts
    /\ r_now \in NowSamples
    /\ r_timeoutEnv \in TimeoutEnvs
    /\ r_sent = PyNone
    /\ r_outcome = "pending"
    /\ r_result = PyNone

\* lines 58-89: the request is built, signed and handed to requests
RSend ==
    /\ rpc = "call"
    /\ LET timestamp == IntToStr(r_now)
           path == RequestPath(r_method, r_endpoint, r_params)
           query_string == QueryString(r_method, r_params)
           signature == GenerateSignature(r_self.secret, timestamp, r_method, path,
                                          query_string)
           headers == [ APEX_SIGNATURE |-> signature,
                        APEX_TIMESTAMP |-> timestamp,
                        APEX_API_KEY |-> r_self.api_key,
                        APEX_PASSPHRASE |-> r_self.passphrase ]
           url == r_self.base_url \o path
           timeout == ParseTimeout(r_timeoutEnv)
       IN  IF "exc" \in DOMAIN timeout
             THEN /\ rpc' = "raised"
                  /\ r_result' = [exc |-> timeout.exc]
                  /\ r_outcome' = "not_sent"
                  /\ UNCHANGED r_sent
             ELSE /\ rpc' = "sent"
                  /\ r_sent' = [ verb |-> IF r_method = S_GET THEN "get" ELSE "post",
                                 url |-> url,
                                 path |-> path,
                                 headers |-> headers,
                                 body |-> IF r_method = S_GET THEN PyNone
                                          ELSE PStr(JsonDumps(PostJson(r_params))),
                                 timeout |-> timeout.val ]
                  /\ UNCHANGED <<r_result, r_outcome>>
    /\ UNCHANGED <<r_self, r_method, r_endpoint, r_params, r_now, r_timeoutEnv>>
    /\ UNCHANGED ROthers

\* lines 87-92 on a 2xx response whose body parses
RResponseOk ==
    /\ rpc = "sent"
    /\ \E body \in ResponseBodies :
         /\ r_result' = [ret |-> body]
         /\ r_outcome' = "ok"
         /\ rpc' = "returned"
    /\ UNCHANGED <<r_self, r_method, r_endpoint, r_params, r_now, r_timeoutEnv, r_sent>>
    /\ UNCHANGED ROthers

\* lines 87-96 when the call times out, cannot connect, or raise_for_status()
\* rejects the status
RResponseFailure ==
    /\ rpc = "sent"
    /\ \E o \in HttpFailures :
         /\ r_outcome' = o
         /\ IF IsRequestException(FailureException(o))
              THEN rpc' = "returned" /\ r_result' = [ret |-> EmptyDict]
              ELSE rpc' = "raised" /\ r_result' = [exc |-> FailureException(o)]
    /\ UNCHANGED <<r_self, r_method, r_endpoint, r_params, r_now, r_timeoutEnv, r_sent>>
    /\ UNCHANGED ROthers

\* line 92 on a 2xx response whose body is not JSON: response.json() raises
\* requests.exceptions.JSONDecodeError (a RequestException) or, with an older
\* requests, a plain ValueError
RResponseBadJson ==
    /\ rpc = "sent"
    /\ r_outcome' = "bad_json"
    /\ \E exc \in {"requests.JSONDecodeError", "ValueError"} :
         IF IsRequestException(exc)
           THEN rpc' = "returned" /\ r_result' = [ret |-> EmptyDict]
           ELSE rpc' = "raised" /\ r_result' = [exc |-> exc]
    /\ UNCHANGED <<r_self, r_method, r_endpoint, r_params, r_now, r_timeoutEnv, r_sent>>
    /\ UNCHANGED ROthers

RNext ==
    \/ RSend
    \/ RResponseOk
    \/ RResponseFailure
    \/ RResponseBadJson

(***************************************************************************)
(* src/apex.py: ApexBalanceChecker.calculate_total_balance                 *)
(***************************************************************************)
\* JSON strings used as dict keys and identifiers
S_Unknown == <<85, 110, 107, 110, 111, 119, 110>>
S_1 == <<49>>
S_17 == <<49, 55>>
S_140 == <<49, 52, 48>>

\* float(v) restricted to integral values: [val |-> x], or [exc |-> e] for
\* the exception float() raises (TypeError on None, ValueError on a str that
\* is not a number)
IsNumeric(str) ==
    \/ IsDigits(str)
    \/ Len(str) > 1 /\ str[1] = 45 /\ IsDigits(Tail(str))

PyFloat(v) ==
    IF v = PyNone THEN [exc |-> "TypeError"]
    ELSE IF v.t = "int" THEN [val |-> v.v]
    ELSE IF ~IsNumeric(v.v) THEN [exc |-> "ValueError"]
    ELSE IF v.v[1] = 45 THEN [val |-> 0 - StrToInt(Tail(v.v))]
    ELSE [val |-> StrToInt(v.v)]

Raised(x) == "exc" \in DOMAIN x

\* d[k] = v on a dict
Put(d, k, v) == [x \in DOMAIN d \cup {k} |-> IF x = k THEN v ELSE d[x]]

\* d with every entry of e assigned into it
Assign(d, e) == [x \in DOMAIN d \cup DOMAIN e |-> IF x \in DOMAIN e THEN e[x] ELSE d[x]]

\* datetime.now().isoformat() of line 119: "2026-01-01T00:00:00"
S_NowIso == <<50, 48, 50, 54, 45, 48, 49, 45, 48, 49, 84, 48, 48, 58, 48, 48, 58, 48, 48>>

\* line 114 as `and`
FetchFailed_both(account_data, balance_data) ==
    DOMAIN account_data = {} /\ DOMAIN balance_data = {}

\* line 114: `not account_data or not balance_data`
FetchFailed(account_data, balance_data) ==
    DOMAIN account_data = {} \/ DOMAIN balance_data = {}

\* line 148 with one identifier missing from the list
IsStablecoin_short(token) == token \in { PStr(S_1), PStr(S_140) }

\* line 148: `token in ["1", "17", "140"]`
IsStablecoin(token) == token \in { PStr(S_1), PStr(S_17), PStr(S_140) }

\* lines 134-145 and 160-171: the record of one wallet, or the exception of
\* the first float() that raises
WalletRecord(wallet) ==
    LET balance == PyFloat(Get(wallet, "balance", PInt(0)))
        pending_deposit == PyFloat(Get(wallet, "pendingDepositAmount", PInt(0)))
        pending_withdraw == PyFloat(Get(wallet, "pendingWithdrawAmount", PInt(0)))
    IN  IF Raised(balance) THEN balance
        ELSE IF Raised(pending_deposit) THEN pending_deposit
        ELSE IF Raised(pending_withdraw) THEN pending_withdraw
        ELSE [val |-> [ balance |-> balance.val,
                        available |-> balance.val - pending_withdraw.val
                                        + pending_deposit.val,
                        pending_deposit |-> pending_deposit.val,
                        pending_withdraw |-> pending_withdraw.val ]]

\* lines 132-151: the loop over spot_wallets; st = [exc, balances, total]
RECURSIVE SpotLoop(_, _)
SpotLoop(wallets, st) ==
    IF wallets = <<>> \/ st.exc # "none" THEN st
    ELSE LET wallet == Head(wallets)
             token == Get(wallet, "tokenId", PStr(S_Unknown))
             rec == WalletRecord(wallet)
         IN  IF Raised(rec) THEN [st EXCEPT !.exc = rec.exc]
             ELSE SpotLoop(Tail(wallets),
                    [st EXCEPT !.balances = Put(@, token, rec.val),
                               !.total = IF IsStablecoin(token)
                                           THEN @ + rec.val.available ELSE @])

\* lines 158-174: the loop over contract_wallets
RECURSIVE ContractLoop(_, _)
ContractLoop(wallets, st) ==
    IF wallets = <<>> \/ st.exc # "none" THEN st
    ELSE LET wallet == Head(wallets)
             asset == Get(wallet, "asset", PStr(S_Unknown))
             rec == WalletRecord(wallet)
         IN  IF Raised(rec) THEN [st EXCEPT !.exc = rec.exc]
             ELSE ContractLoop(Tail(wallets),
                    [st EXCEPT !.balances = Put(@, asset, rec.val),
                               !.total = @ + rec.val.available])

\* lines 180-196: the loop over positions; st = [exc, summary]
RECURSIVE PositionLoop(_, _)
PositionLoop(positions, st) ==
    IF positions = <<>> \/ st.exc # "none" THEN st
    ELSE LET position == Head(positions)
             size == PyFloat(Get(position, "size", PInt(0)))
             entry_price == PyFloat(Get(position, "entryPrice", PInt(0)))
         IN  IF Raised(size) THEN [st EXCEPT !.exc = size.exc]
             ELSE IF size.val = 0 THEN PositionLoop(Tail(positions), st)
             ELSE IF Raised(entry_price) THEN [st EXCEPT !.exc = entry_price.exc]
             ELSE PositionLoop(Tail(positions),
                    [st EXCEPT !.summary = Append(@,
                       [ symbol |-> Get(position, "symbol", PStr(S_Unknown)),
                         side |-> Get(position, "side", PStr(S_Unknown)),
                         size |-> size.val,
                         entry_price |-> entry_price.val,
                         value |-> size.val * entry_price.val ])])

\* lines 199-203: the four summary fields, or the first exception
BalanceSummary(balance_data) ==
    LET total_equity == PyFloat(Get(balance_data, "totalEquityValue", PInt(0)))
        available_balance == PyFloat(Get(balance_data, "availableBalance", PInt(0)))
        initial_margin == PyFloat(Get(balance_data, "initialMargin", PInt(0)))
        maintenance_margin == PyFloat(Get(balance_data, "maintenanceMargin", PInt(0)))
    IN  IF Raised(total_equity) THEN total_equity
        ELSE IF Raised(available_balance) THEN available_balance
        ELSE IF Raised(initial_margin) THEN initial_margin
        ELSE IF Raised(maintenance_margin) THEN maintenance_margin
        ELSE [val |-> [ total_equity |-> total_equity.val,
                        available_balance |-> available_balance.val,
                        initial_margin |-> initial_margin.val,
                        maintenance_margin |-> maintenance_margin.val ]]

\* lines 114-212 of calculate_total_balance, after the two fetches:
\* [ret |-> the dict returned] or [exc |-> the exception raised]
CalculateTotalBalance(account_data, balance_data) ==
    IF FetchFailed(account_data, balance_data) THEN [ret |-> EmptyDict]
    ELSE
      LET spot == SpotLoop(Get(account_data, "spotWallets", <<>>),
                           [exc |-> "none", balances |-> EmptyDict, total |-> 0])
          contract == ContractLoop(Get(account_data, "contractWallets", <<>>),
                           [exc |-> "none", balances |-> EmptyDict, total |-> 0])
          pos == PositionLoop(Get(account_data, "positions", <<>>),
                           [exc |-> "none", summary |-> <<>>])
          summary == IF DOMAIN balance_data # {}
                       THEN BalanceSummary(balance_data)
                       ELSE [val |-> EmptyDict]
      IN  IF spot.exc # "none" THEN [exc |-> spot.exc]
          ELSE IF contract.exc # "none" THEN [exc |-> contract.exc]
          ELSE IF pos.exc # "none" THEN [exc |-> pos.exc]
          ELSE IF Raised(summary) THEN [exc |-> summary.exc]
          ELSE [ret |->
                 Assign(Assign([ timestamp |-> PStr(S_NowIso),
                                 spot_balances |-> spot.balances,
                                 contract_balances |-> contract.balances,
                                 total_equity |-> 0,
                                 available_balance |-> 0,
                                 positions_summary |-> pos.summary ],
                               summary.val),
                        [ calculated_totals |->
                            [ spot_total |-> spot.total,
                              contract_total |-> contract.total,
                              combined_liquid_assets |->
                                spot.total + contract.total ] ])]

\* ---- inputs ----
MaxItems == 2

Absent == [t |-> "absent"]

\* the dict with the given (key, value) pairs, a pair with value Absent left out
MkDict(pairs) ==
    [ k \in { p[1] : p \in { q \in pairs : q[2] # Absent } }
        |-> (CHOOSE p \in pairs : p[1] = k)[2] ]

SpotWalletSamples ==
    { MkDict({ <<"tokenId", tok>>, <<"balance", bal>>,
               <<"pendingDepositAmount", pd>>, <<"pendingWithdrawAmount", pw>> }) :
        tok \in { PStr(S_1), PStr(S_17), PStr(S_140), PStr(<<50>>) },
        bal \in { PStr(<<53>>), Absent, PStr(<<97, 98, 99>>) },
        pd \in { PStr(<<49>>), PyNone },
        pw \in { PStr(<<50>>) } }

ContractWalletSamples ==
    { MkDict({ <<"asset", asset>>, <<"balance", bal>>,
               <<"pendingDepositAmount", pd>>, <<"pendingWithdrawAmount", pw>> }) :
        asset \in { PStr(<<85, 83, 68, 84>>), Absent },
        bal \in { PStr(<<52>>) },
        pd \in { Absent },
        pw \in { Absent, PStr(<<120>>) } }

PositionSamples ==
    { MkDict({ <<"symbol", PStr(<<66, 84, 67>>)>>, <<"side", PStr(<<76>>)>>,
               <<"size", size>>, <<"entryPrice", entry>> }) :
        size \in { Absent, PStr(<<48>>), PStr(<<45, 50>>) },
        entry \in { PStr(<<51>>), PyNone } }

\* account responses with n list entries in all
AccountsOfSize(n) ==
    UNION { UNION { { [ spotWallets |-> s, contractWallets |-> c, positions |-> q ] :
                        s \in [1..i -> SpotWalletSamples],
                        c \in [1..j -> ContractWalletSamples],
                        q \in [1..(n - i - j) -> PositionSamples] } :
                    j \in 0..(n - i) } :
            i \in 0..n }

AccountResponses(max) ==
    { EmptyDict, [id |-> PStr(<<55>>)] }
      \cup UNION { AccountsOfSize(n) : n \in 0..max }

BalanceResponses ==
    { EmptyDict,
      [ totalEquityValue |-> PStr(<<57>>), availableBalance |-> PStr(<<56>>),
        initialMargin |-> PStr(<<49>>), maintenanceMargin |-> PStr(<<49>>) ],
      [ totalEquityValue |-> PStr(<<57>>) ],
      [ totalEquityValue |-> PStr(<<57>>), availableBalance |-> PStr(<<56>>),
        initialMargin |-> PyNone, maintenanceMargin |-> PStr(<<49>>) ] }

AOff ==
    /\ apc = "off"
    /\ a_account_data = PyNone
    /\ a_balance_data = PyNone
    /\ a_result = PyNone

AInit ==
    /\ apc = "fetched"
    /\ a_account_data \in AccountResponses(MaxItems)
    /\ a_balance_data \in BalanceResponses
    /\ a_result = PyNone

\* lines 114-212
AAggregate ==
    /\ apc = "fetched"
    /\ a_result' = CalculateTotalBalance(a_account_data, a_balance_data)
    /\ apc' = "done"
    /\ UNCHANGED <<a_account_data, a_balance_data>>
    /\ UNCHANGED AOthers

ANext ==
    \/ AAggregate

(***************************************************************************)
(* src/apex.py: main                                                       *)
(***************************************************************************)
\* "your-api-key-here"
S_Placeholder == <<121, 111, 117, 114, 45, 97, 112, 105, 45, 107, 101, 121, 45,
                   104, 101, 114, 101>>

\* line 258 with PASSPHRASE left out of the list
CredentialsPresent_noPassphrase(k, sec, p) ==
    /\ k # PyNone /\ k # PStr(<<>>)
    /\ sec # PyNone /\ sec # PStr(<<>>)

\* line 258: all([API_KEY, SECRET, PASSPHRASE])
CredentialsPresent(k, sec, p) ==
    /\ k # PyNone /\ k # PStr(<<>>)
    /\ sec # PyNone /\ sec # PStr(<<>>)
    /\ p # PyNone /\ p # PStr(<<>>)

\* line 268
IsPlaceholder(k) == k = PStr(S_Placeholder)

\* ---- inputs ----
MaxMainItems == 1

ApiKeyEnv == { PyNone, PStr(<<>>), PStr(S_Placeholder), PStr(SelfApiKey) }
SecretEnv == { PyNone, PStr(<<>>), PStr(SelfSecret) }
PassphraseEnv == { PyNone, PStr(<<>>), PStr(SelfPassphrase) }

\* what _make_request hands back to calculate_total_balance: {} after a
\* failed call, the parsed body of a successful one, or an exception that is
\* not a RequestException
FetchOutcomes(bodies) ==
    { [ret |-> b] : b \in bodies \cup {EmptyDict} } \cup { [exc |-> "ValueError"] }

MOff ==
    /\ mpc = "off"
    /\ API_KEY = PyNone
    /\ SECRET = PyNone
    /\ PASSPHRASE = PyNone
    /\ IS_TESTNET = FALSE
    /\ auto_save = FALSE
    /\ m_checker = PyNone
    /\ m_http = 0
    /\ m_account_data = PyNone
    /\ m_balance_data = PyNone
    /\ m_report = PyNone
    /\ m_out = {}
    /\ m_prompts = 0
    /\ m_files = 0
    /\ m_caught = NoError

MInit ==
    /\ mpc = "start"
    /\ API_KEY \in ApiKeyEnv
    /\ SECRET \in SecretEnv
    /\ PASSPHRASE \in PassphraseEnv
    /\ IS_TESTNET \in BOOLEAN
    /\ auto_save \in BOOLEAN
    /\ m_checker = PyNone
    /\ m_http = 0
    /\ m_account_data = PyNone
    /\ m_balance_data = PyNone
    /\ m_report = PyNone
    /\ m_out = {}
    /\ m_prompts = 0
    /\ m_files = 0
    /\ m_caught = NoError

\* lines 312-317: the handler of `except Exception`
MHandler(exc) ==
    /\ m_caught' = exc
    /\ m_out' = m_out \cup {"error"}
    /\ mpc' = "exit"

\* lines 252-274
MCheckCredentials ==
    /\ mpc = "start"
    /\ IF ~CredentialsPresent(API_KEY, SECRET, PASSPHRASE)
         THEN mpc' = "exit" /\ m_out' = m_out \cup {"missing_credentials"}
         ELSE IF IsPlaceholder(API_KEY)
           THEN mpc' = "exit" /\ m_out' = m_out \cup {"placeholder_guidance"}
           ELSE mpc' = "construct" /\ m_out' = m_out
    /\ UNCHANGED <<API_KEY, SECRET, PASSPHRASE, IS_TESTNET, auto_save, m_checker, m_http,
                   m_account_data, m_balance_data, m_report, m_prompts, m_files,
                   m_caught>>
    /\ UNCHANGED MOthers

\* lines 278-280
MConstruct ==
    /\ mpc = "construct"
    /\ m_checker' = NewChecker(API_KEY.v, SECRET.v, PASSPHRASE.v, IS_TESTNET)
    /\ m_out' = m_out \cup {"environment"}
    /\ mpc' = "fetch_account"
    /\ UNCHANGED <<API_KEY, SECRET, PASSPHRASE, IS_TESTNET, auto_save, m_http,
                   m_account_data, m_balance_data, m_report, m_prompts, m_files,
                   m_caught>>
    /\ UNCHANGED MOthers

\* lines 283, 108-111: get_account_data()
MFetchAccount ==
    /\ mpc = "fetch_account"
    /\ m_http' = m_http + 1
    /\ \E res \in FetchOutcomes(AccountResponses(MaxMainItems)) :
         IF Raised(res)
           THEN MHandler(res.exc) /\ UNCHANGED m_account_data
           ELSE /\ m_account_data' = res.ret
                /\ mpc' = "fetch_balance"
                /\ UNCHANGED <<m_out, m_caught>>
    /\ UNCHANGED <<API_KEY, SECRET, PASSPHRASE, IS_TESTNET, auto_save, m_checker,
                   m_balance_data, m_report, m_prompts, m_files>>
    /\ UNCHANGED MOthers

\* line 112: get_account_balance()
MFetchBalance ==
    /\ mpc = "fetch_balance"
    /\ m_http' = m_http + 1
    /\ \E res \in FetchOutcomes(BalanceResponses) :
         IF Raised(res)
           THEN MHandler(res.exc) /\ UNCHANGED m_balance_data
           ELSE /\ m_balance_data' = res.ret
                /\ mpc' = "aggregate"
                /\ UNCHANGED <<m_out, m_caught>>
    /\ UNCHANGED <<API_KEY, SECRET, PASSPHRASE, IS_TESTNET, auto_save, m_checker,
                   m_account_data, m_report, m_prompts, m_files>>
    /\ UNCHANGED MOthers

\* lines 114-212, 283: the rest of calculate_total_balance
MAggregate ==
    /\ mpc = "aggregate"
    /\ LET res == CalculateTotalBalance(m_account_data, m_balance_data)
       IN  IF Raised(res)
             THEN MHandler(res.exc) /\ UNCHANGED m_report
             ELSE /\ m_report' = res.ret
                  /\ m_out' = IF FetchFailed(m_account_data, m_balance_data)
                                THEN m_out \cup {"failed_to_fetch"} ELSE m_out
                  /\ mpc' = "report"
                  /\ UNCHANGED m_caught
    /\ UNCHANGED <<API_KEY, SECRET, PASSPHRASE, IS_TESTNET, auto_save, m_checker, m_http,
                   m_account_data, m_balance_data, m_prompts, m_files>>
    /\ UNCHANGED MOthers

\* lines 285-293, 309-310
MReport ==
    /\ mpc = "report"
    /\ IF DOMAIN m_report # {}
         THEN /\ m_out' = m_out \cup {"summary"}
              /\ mpc' = IF auto_save THEN "save" ELSE "prompt"
         ELSE /\ m_out' = m_out \cup {"failed_to_retrieve"}
              /\ mpc' = "exit"
    /\ UNCHANGED <<API_KEY, SECRET, PASSPHRASE, IS_TESTNET, auto_save, m_checker, m_http,
                   m_account_data, m_balance_data, m_report, m_prompts, m_files,
                   m_caught>>
    /\ UNCHANGED MOthers

\* lines 295-297: input() returns an answer or raises EOFError
MPrompt ==
    /\ mpc = "prompt"
    /\ m_prompts' = m_prompts + 1
    /\ \E answer \in {"y", "n", "EOFError"} :
         IF answer = "EOFError"
           THEN MHandler("EOFError")
           ELSE /\ mpc' = IF answer = "y" THEN "save" ELSE "exit"
                /\ UNCHANGED <<m_out, m_caught>>
    /\ UNCHANGED <<API_KEY, SECRET, PASSPHRASE, IS_TESTNET, auto_save, m_checker, m_http,
                   m_account_data, m_balance_data, m_report, m_files>>
    /\ UNCHANGED MOthers

\* lines 298-307: the report is written, or the filesystem raises OSError
MSave ==
    /\ mpc = "save"
    /\ \E ok \in BOOLEAN :
         IF ok
           THEN /\ m_files' = m_files + 1
                /\ m_out' = m_out \cup {"saved"}
                /\ mpc' = "exit"
                /\ UNCHANGED m_caught
           ELSE MHandler("OSError") /\ UNCHANGED m_files
    /\ UNCHANGED <<API_KEY, SECRET, PASSPHRASE, IS_TESTNET, auto_save, m_checker, m_http,
                   m_account_data, m_balance_data, m_report, m_prompts>>
    /\ UNCHANGED MOthers

MNext ==
    \/ MCheckCredentials
    \/ MConstruct
    \/ MFetchAccount
    \/ MFetchBalance
    \/ MAggregate
    \/ MReport
    \/ MPrompt
    \/ MSave

InitDeposit == DInit /\ ROff /\ AOff /\ MOff

SpecDeposit == InitDeposit /\ [][DNext]_vars

InitRequest == RInit /\ DOff /\ AOff /\ MOff

SpecRequest == InitRequest /\ [][RNext]_vars

InitAggregate == AInit /\ DOff /\ ROff /\ MOff

SpecAggregate == InitAggregate /\ [][ANext]_vars

InitMain == MInit /\ DOff /\ ROff /\ AOff

SpecMain == InitMain /\ [][MNext]_vars

(***************************************************************************)
(* Properties of the deposit flow                                          *)
(***************************************************************************)
\* READY and everything after it
DReadyStates == {"ready", "deposit", "wait_tx", "done"}

\* every lookup made so far returned None (none returned a value, none raised)
AllLookupsEmpty == lookups > 0 /\ emptyLookups = lookups

\* C1: when every account lookup returns None the flow makes exactly
\* max_attempts (20) lookups and then ends with the ValueError of line 52:
\* the loop is never left earlier, READY is never entered, and no 21st
\* lookup is ever made.
C1_PollExhaustion ==
    /\ lookups <= max_attempts
    /\ derr = "ValueError_exhausted"
         => lookups = max_attempts /\ emptyLookups = max_attempts
    /\ AllLookupsEmpty /\ dpc = "after_loop" => lookups = max_attempts
    /\ AllLookupsEmpty /\ dpc = "error" => derr = "ValueError_exhausted"
    /\ AllLookupsEmpty => dpc \notin DReadyStates

C1_Witness ==
    /\ dpc = "error"
    /\ derr = "ValueError_exhausted"
    /\ lookups = max_attempts
    /\ emptyLookups = max_attempts

\* C2: when the lookup returns None on attempts 1..k-1 and a value on
\* attempt k (1 <= k <= 20) the flow is READY after exactly k lookups, and
\* each lookup that returned None was followed by one sleep and one
\* increment of `attempt` with the flow still polling.
C2_PollSuccess ==
    /\ dpc \in DReadyStates =>
          /\ account # PyNone
          /\ lookupsAtReady = lookups
          /\ attempt = lookups
          /\ lookups >= 1 /\ lookups <= max_attempts
          /\ emptyLookups = lookups - 1
    /\ sleeps = emptyLookups
    /\ dpc \in {"while", "lookup", "after_loop"} => attempt = lookups
    /\ dpc \in {"while", "lookup"} /\ account = PyNone => emptyLookups = attempt
    /\ dpc = "lookup" => account = PyNone /\ attempt < max_attempts
    /\ dpc = "after_loop" /\ account = PyNone => attempt = max_attempts

C2_Witness ==
    /\ dpc = "ready"
    /\ lookups = max_attempts
    /\ emptyLookups = max_attempts - 1
    /\ sleeps = max_attempts - 1

\* C9: deposit_to_exchange is called at most once, only after READY with an
\* account that is not None (never after a failure, never while polling);
\* no lookup is made after READY; wait_for_tx is called only after the
\* deposit call; an error of the deposit call ends the run without retry.
C9_DepositOrdering ==
    /\ deposits <= 1
    /\ waits <= deposits
    /\ deposits = 1 =>
          /\ lookupsAtReady # -1
          /\ account # PyNone
          /\ client_account = account
          /\ dpc \in {"wait_tx", "done", "error"}
          /\ derr \in {NoError, "deposit_error", "wait_error"}
    /\ derr \in {"ValueError_key", "sdk_error", "ValueError_exhausted"}
          => deposits = 0 /\ waits = 0
    /\ dpc \in {"check_key", "init_client", "while", "lookup", "after_loop"}
          => deposits = 0 /\ waits = 0
    /\ lookupsAtReady # -1 => lookups = lookupsAtReady
    /\ derr = "deposit_error" => dpc = "error" /\ deposits = 1 /\ waits = 0

C9_Witness ==
    /\ dpc = "done"
    /\ deposits = 1
    /\ waits = 1
    /\ lookups < max_attempts

(***************************************************************************)
(* Properties of the request client                                        *)
(***************************************************************************)
\* the message the signature in the APEX-SIGNATURE header was computed over
SignedMessage == r_sent.headers.APEX_SIGNATURE.b64.msg

\* every reordering of a sequence
Reorderings(q) ==
    { [i \in 1..Len(q) |-> q[f[i]]] :
        f \in { g \in [1..Len(q) -> 1..Len(q)] :
                  \A i, j \in 1..Len(q) : i # j => g[i] # g[j] } }

\* the entries whose value is not None, in ascending key order
CanonicalItems(items) ==
    LET kept == { items[i] : i \in { j \in 1..Len(items) : items[j][2] # PyNone } }
        n == Cardinality(kept)
    IN  CHOOSE q \in [1..n -> kept] :
          \A i \in 1..(n - 1) : StrLess(q[i][1], q[i + 1][1])

\* k=v of each canonical entry, joined by '&'
CanonicalQuery(items) ==
    LET c == CanonicalItems(items)
    IN  Join(S_AMP, [i \in 1..Len(c) |-> c[i][1] \o S_EQ \o FormatValue(c[i][2])])

\* C3: whenever the HTTP call fails (timeout, connection error, non-2xx
\* status) _make_request returns {} and does not raise; a non-empty parsed
\* body is returned only when the call succeeded, and a successful call
\* returns its parsed body.
C3_FailureReturnsEmpty ==
    /\ r_outcome \in HttpFailures
         => rpc = "returned" /\ r_result = [ret |-> EmptyDict]
    /\ rpc = "returned" /\ r_result # [ret |-> EmptyDict]
         => r_outcome = "ok" /\ r_result.ret \in ResponseBodies
    /\ r_outcome = "ok" => rpc = "returned"

C3_Witness ==
    /\ rpc = "returned"
    /\ r_outcome = "http_error"
    /\ r_method = S_POST
    /\ r_result = [ret |-> EmptyDict]

\* C4: for a GET the query put on the path and into the signed data is the
\* entries with a value other than None, sorted by key, rendered k=v and
\* joined by '&'; it is the same for every insertion order of the
\* parameters; when no entry has a value nothing is appended to the path
\* or to the signed data.
C4_GetCanonicalization ==
    rpc = "sent" /\ r_method = S_GET /\ r_params # PyNone =>
      LET items == r_params.items
          q == CanonicalQuery(items)
          base == S_V3 \o r_endpoint
          ts == r_sent.headers.APEX_TIMESTAMP
      IN  /\ r_sent.path = base \o (IF q = <<>> THEN <<>> ELSE S_QM \o q)
          /\ r_sent.url = r_self.base_url \o r_sent.path
          /\ SignedMessage = ts \o S_GET \o r_sent.path
                                \o (IF q = <<>> THEN <<>> ELSE S_AMP \o q)
          /\ \A p \in Reorderings(items) :
               /\ RequestPath(r_method, r_endpoint, PDict(p)) = r_sent.path
               /\ GenerateSignature(r_self.secret, ts, r_method,
                                    RequestPath(r_method, r_endpoint, PDict(p)),
                                    QueryString(r_method, PDict(p)))
                    = r_sent.headers.APEX_SIGNATURE
          /\ (\A i \in 1..Len(items) : items[i][2] = PyNone)
               => r_sent.path = base /\ SignedMessage = ts \o S_GET \o base

C4_Witness ==
    /\ rpc = "sent"
    /\ r_method = S_GET
    /\ r_params # PyNone
    /\ Len(r_params.items) = 3
    /\ StrLess(r_params.items[3][1], r_params.items[1][1])
    /\ r_params.items[1][2] # PyNone
    /\ r_params.items[2][2] = PyNone
    /\ r_params.items[3][2] # PyNone

\* C10: for a POST the signature in APEX-SIGNATURE is computed over
\* timestamp ++ method ++ path ++ body, the timestamp being the one in
\* APEX-TIMESTAMP and the body the serialized params sent as request body.
C10_PostSignsBody ==
    rpc = "sent" /\ r_method = S_POST =>
      SignedMessage = r_sent.headers.APEX_TIMESTAMP \o S_POST \o r_sent.path
                        \o r_sent.body.v

(***************************************************************************)
(* Properties of the aggregation                                           *)
(***************************************************************************)
\* the numeric value of field k of a wallet in a response that aggregated
\* without an exception; an absent field counts 0
FieldValue(w, k) == IF k \in DOMAIN w THEN PyFloat(w[k]).val ELSE 0

AvailableOf(w) ==
    FieldValue(w, "balance") - FieldValue(w, "pendingWithdrawAmount")
      + FieldValue(w, "pendingDepositAmount")

RECURSIVE SumAvailable(_, _)
SumAvailable(wallets, ids) ==
    IF ids = {} THEN 0
    ELSE LET i == CHOOSE x \in ids : TRUE
         IN  AvailableOf(wallets[i]) + SumAvailable(wallets, ids \ {i})

\* C6: for non-empty account and balance responses calculate_total_balance
\* returns a report and does not raise, whatever numeric fields are missing
\* or malformed.
C6_NeverRaises ==
    apc = "done" /\ DOMAIN a_account_data # {} /\ DOMAIN a_balance_data # {}
      => "ret" \in DOMAIN a_result /\ a_result.ret # EmptyDict

\* C7: in every report spot_total is the sum of `available` over exactly the
\* spot wallets whose tokenId is "1", "17" or "140", and every spot wallet,
\* whatever its tokenId, has an entry in spot_balances.
C7_SpotAllowList ==
    apc = "done" /\ "ret" \in DOMAIN a_result /\ a_result.ret # EmptyDict =>
      LET wallets == Get(a_account_data, "spotWallets", <<>>)
          TokenOf(i) == IF "tokenId" \in DOMAIN wallets[i]
                          THEN wallets[i].tokenId ELSE PStr(S_Unknown)
          listed == { i \in 1..Len(wallets) :
                        \/ TokenOf(i) = PStr(<<49>>)
                        \/ TokenOf(i) = PStr(<<49, 55>>)
                        \/ TokenOf(i) = PStr(<<49, 52, 48>>) }
      IN  /\ a_result.ret.calculated_totals.spot_total = SumAvailable(wallets, listed)
          /\ \A i \in 1..Len(wallets) :
               TokenOf(i) \in DOMAIN a_result.ret.spot_balances

C7_Witness ==
    /\ apc = "done"
    /\ "ret" \in DOMAIN a_result
    /\ a_result.ret # EmptyDict
    /\ "spotWallets" \in DOMAIN a_account_data
    /\ Len(a_account_data.spotWallets) = 2
    /\ a_account_data.spotWallets[1].tokenId = PStr(<<49, 55>>)
    /\ a_account_data.spotWallets[2].tokenId = PStr(<<50>>)
    /\ AvailableOf(a_account_data.spotWallets[2]) # 0
    /\ a_result.ret.calculated_totals.spot_total
         = AvailableOf(a_account_data.spotWallets[1])
    /\ a_result.ret.calculated_totals.spot_total # 0
    /\ PStr(<<50>>) \in DOMAIN a_result.ret.spot_balances

(***************************************************************************)
(* Properties of main                                                      *)
(***************************************************************************)
\* a credential that is unset or set to the empty string
Unset(v) == v = PyNone \/ v = PStr(<<>>)

\* the credential checks of main do not pass
GateClosed ==
    \/ Unset(API_KEY) \/ Unset(SECRET) \/ Unset(PASSPHRASE)
    \/ API_KEY = PStr(<<121, 111, 117, 114, 45, 97, 112, 105, 45, 107, 101, 121,
                        45, 104, 101, 114, 101>>)

\* C5: when the account response or the balance response is empty,
\* calculate_total_balance returns {} without raising, and main prints the
\* failure message and exits without a summary, a prompt or a report file.
C5_FailedFetch ==
    /\ mpc \in {"report", "prompt", "save", "exit"}
    /\ m_http = 2
    /\ m_account_data # PyNone /\ m_balance_data # PyNone
    /\ DOMAIN m_account_data = {} \/ DOMAIN m_balance_data = {}
    =>
    /\ m_report = EmptyDict
    /\ m_caught = NoError
    /\ "failed_to_fetch" \in m_out
    /\ mpc \in {"report", "exit"}
    /\ mpc = "exit" => "failed_to_retrieve" \in m_out
    /\ "summary" \notin m_out
    /\ "saved" \notin m_out
    /\ m_prompts = 0
    /\ m_files = 0

C5_Witness ==
    /\ mpc = "exit"
    /\ m_http = 2
    /\ m_account_data # PyNone /\ m_balance_data # PyNone
    /\ DOMAIN m_account_data # {}
    /\ DOMAIN m_balance_data = {}
    /\ m_report = EmptyDict
    /\ "failed_to_retrieve" \in m_out

\* C8: when a credential is missing or the API key is the placeholder, main
\* prints guidance and returns without constructing the client, issuing an
\* HTTP request or writing a file; requests are issued only after both checks
\* have passed.
C8_CredentialGate ==
    /\ GateClosed /\ mpc # "start" =>
         /\ mpc = "exit"
         /\ m_out \in {{"missing_credentials"}, {"placeholder_guidance"}}
         /\ m_caught = NoError
    /\ GateClosed => m_checker = PyNone /\ m_http = 0 /\ m_files = 0
    /\ (m_checker # PyNone \/ m_http > 0 \/ m_files > 0) =>
         ~GateClosed /\ mpc \notin {"start", "construct"}
                     /\ "missing_credentials" \notin m_out
                     /\ "placeholder_guidance" \notin m_out

C8_Witness ==
    /\ mpc = "exit"
    /\ ~Unset(API_KEY) /\ ~Unset(SECRET) /\ ~Unset(PASSPHRASE)
    /\ GateClosed
    /\ m_out = {"placeholder_guidance"}
    /\ m_http = 0

====
